---- MODULE Spec2Model ----
(***************************************************************************)
(* Model of the audio ingestion pipeline of Handy:                         *)
(*   src-tauri/src/audio_toolkit/audio/file_decoder.rs                     *)
(*     decode_audio_file : open, probe, select track, make decoder,        *)
(*                         decode loop, empty check, mixdown, rate stage   *)
(*     resample          : block loop over chunks(CHUNK_SIZE), truncation  *)
(*                                                                         *)
(* The demuxer, the decoder (symphonia) and the block resampler (rubato)   *)
(* are libraries outside the repository: what they return is a             *)
(* nondeterministic choice among the results their interface allows.       *)
(*                                                                         *)
(* Spec     the whole call, with the contents of the sample buffers.       *)
(* SpecLen  lines 105-170 (empty check, mixdown, rate stage, resample) on  *)
(*          buffer lengths alone, for buffers of many blocks.              *)
(***************************************************************************)
EXTENDS Integers, Sequences, FiniteSets, TLC

(* ------------------------------------------------------------------ *)
(* Program constants                                                  *)
(* ------------------------------------------------------------------ *)
TARGET_SAMPLE_RATE == 16000

CHUNK_SIZE == 1024

(* ------------------------------------------------------------------ *)
(* Bounds of the model                                                *)
(* ------------------------------------------------------------------ *)
\* Packets the demuxer yields before it reports end-of-stream or an error.
MaxPackets == 2

\* Frames the resampler returns for one block are 0..MaxResampledFrames.
MaxResampledFrames == 3

\* Number of tracks of a probed container.
TrackCounts == 0..2

\* Sample rates a track can declare.
SampleRates == {TARGET_SAMPLE_RATE, 44100}

\* Channel counts of a track declaration and of a decoded block's layout.
ChannelCounts == 1..2

\* Frame counts of a decoded block (0: an empty priming block).
FrameCounts == 0..2

(* ------------------------------------------------------------------ *)
(* Values                                                             *)
(* ------------------------------------------------------------------ *)
\* Option<T>: None is the empty sequence, Some(v) the one-element sequence.
None == <<>>

Some(v) == <<v>>

Max(S) == CHOOSE x \in S : \A y \in S : y <= x

Min2(a, b) == IF a <= b THEN a ELSE b

\* A PCM sample is an exact rational num/den (f32 in the program).
Sample(n, d) == [num |-> n, den |-> d]

\* A frame the resampler produced: the j-th frame of its k-th block.
\* The values are the library's; the model only records where they come from.
Resampled(k, j) == [block |-> k, frame |-> j]

CODEC_TYPE_NULL == "null"

\* Codec parameters of one track; id is filled in by position in the list.
TrackParams ==
    { [codec |-> CODEC_TYPE_NULL, sample_rate |-> None, channels |-> None] }
    \cup
    { [codec |-> "audio", sample_rate |-> r, channels |-> c] :
        r \in {None} \cup {Some(x) : x \in SampleRates},
        c \in {None} \cup {Some(x) : x \in ChannelCounts} }

TrackLists ==
    UNION { [1..n -> TrackParams] : n \in TrackCounts }

\* The samples SampleBuffer::copy_interleaved_ref yields for the block decoded
\* from the p-th packet of the stream: frames * chans samples, frame by frame.
\* Every sample of a stream has its own value, so that order and position show.
BlockWidth == Max(FrameCounts) * Max(ChannelCounts)

BlockSamples(p, frames, chans) ==
    [j \in 1..(frames * chans) |-> Sample((p - 1) * BlockWidth + j, 1)]

VARIABLES
    pc,                   \* position in decode_audio_file
    err,                  \* the error the call returned, "" while there is none
    tracks,               \* format_reader.tracks()
    track_id,             \* id of the selected track, 0 before selection
    source_sample_rate,   \* sample rate of the selected track, 0 before selection
    channels,             \* channel count resolved from the track, 0 before selection
    decoders,             \* decoders constructed so far
    stream,               \* what next_packet has returned so far, call by call
    decodes,              \* calls of decoder.decode
    interleaved_samples,  \* the accumulator
    mono_samples,
    resamplers,           \* resamplers constructed so far
    chunk,                \* blocks the resampler has processed
    output,               \* resample's output vector
    final_samples,        \* the buffer returned on success
    lenState,             \* state of SpecLen (constant under Spec)
    cmd                   \* state of transcribe_audio_file (constant under Spec)

vars == << pc, err, tracks, track_id, source_sample_rate, channels, decoders,
           stream, decodes, interleaved_samples, mono_samples,
           resamplers, chunk, output, final_samples, lenState, cmd >>

LenOff == [pc |-> "off"]

CmdOff == [pc |-> "off"]

Init ==
    /\ pc = "Start"
    /\ err = ""
    /\ tracks = <<>>
    /\ track_id = 0
    /\ source_sample_rate = 0
    /\ channels = 0
    /\ decoders = 0
    /\ stream = <<>>
    /\ decodes = 0
    /\ interleaved_samples = <<>>
    /\ mono_samples = <<>>
    /\ resamplers = 0
    /\ chunk = 0
    /\ output = <<>>
    /\ final_samples = <<>>
    /\ lenState = LenOff
    /\ cmd = CmdOff

\* Mutant of Fail: the error is recorded and the call goes on where it is.
Fail_Swallowed(e) ==
    /\ pc' = pc
    /\ err' = e

\* `return Err(..)`: the call ends, everything else is dropped as it stands.
Fail(e) ==
    /\ pc' = "Failed"
    /\ err' = e

(* ------------------------------------------------------------------ *)
(* Open and probe (lines 18-39)                                       *)
(* ------------------------------------------------------------------ *)
Open ==
    /\ pc = "Start"
    /\ pc' = "Opened"
    /\ UNCHANGED << err, tracks, track_id, source_sample_rate, channels, decoders,
                    stream, decodes, interleaved_samples, mono_samples,
                    resamplers, chunk, output, final_samples, lenState, cmd >>

OpenFail ==
    /\ pc = "Start"
    /\ Fail("OpenError")
    /\ UNCHANGED << tracks, track_id, source_sample_rate, channels, decoders,
                    stream, decodes, interleaved_samples, mono_samples,
                    resamplers, chunk, output, final_samples, lenState, cmd >>

Probe ==
    /\ pc = "Opened"
    /\ \E ts \in TrackLists :
          tracks' = [i \in DOMAIN ts |->
                        [id |-> i, codec |-> ts[i].codec,
                         sample_rate |-> ts[i].sample_rate,
                         channels |-> ts[i].channels]]
    /\ pc' = "Probed"
    /\ UNCHANGED << err, track_id, source_sample_rate, channels, decoders,
                    stream, decodes, interleaved_samples, mono_samples,
                    resamplers, chunk, output, final_samples, lenState, cmd >>

ProbeFail ==
    /\ pc = "Opened"
    /\ Fail("ProbeError")
    /\ UNCHANGED << tracks, track_id, source_sample_rate, channels, decoders,
                    stream, decodes, interleaved_samples, mono_samples,
                    resamplers, chunk, output, final_samples, lenState, cmd >>

(* ------------------------------------------------------------------ *)
(* Track selection (lines 41-54)                                      *)
(* ------------------------------------------------------------------ *)
\* tracks().iter().find(|t| t.codec_params.codec != CODEC_TYPE_NULL)
RECURSIVE find_from(_, _)
find_from(ts, i) ==
    IF i > Len(ts) THEN None
    ELSE IF ts[i].codec /= CODEC_TYPE_NULL THEN Some(ts[i])
    ELSE find_from(ts, i + 1)

\* Mutant of find_track: a track without a sample rate is passed over too.
RECURSIVE find_usable_from(_, _)
find_usable_from(ts, i) ==
    IF i > Len(ts) THEN None
    ELSE IF ts[i].codec /= CODEC_TYPE_NULL /\ ts[i].sample_rate /= None
         THEN Some(ts[i])
    ELSE find_usable_from(ts, i + 1)

find_track_with_rate(ts) ==
    IF find_usable_from(ts, 1) /= None THEN find_usable_from(ts, 1)
    ELSE find_from(ts, 1)

find_track(ts) == find_from(ts, 1)

\* codec_params.channels.map(|c| c.count()).unwrap_or(1)
channel_count(t) == IF t.channels = None THEN 1 ELSE t.channels[1]

SelectTrack ==
    /\ pc = "Probed"
    /\ find_track(tracks) /= None
    /\ LET track == find_track(tracks)[1] IN
          /\ track.sample_rate /= None
          /\ track_id' = track.id
          /\ source_sample_rate' = track.sample_rate[1]
          /\ channels' = channel_count(track)
    /\ pc' = "TrackSelected"
    /\ UNCHANGED << err, tracks, decoders, stream, decodes,
                    interleaved_samples, mono_samples, resamplers, chunk, output,
                    final_samples, lenState, cmd >>

NoAudioTrack ==
    /\ pc = "Probed"
    /\ find_track(tracks) = None
    /\ Fail("NoAudioTrack")
    /\ UNCHANGED << tracks, track_id, source_sample_rate, channels, decoders,
                    stream, decodes, interleaved_samples, mono_samples,
                    resamplers, chunk, output, final_samples, lenState, cmd >>

MissingSampleRate ==
    /\ pc = "Probed"
    /\ find_track(tracks) /= None
    /\ find_track(tracks)[1].sample_rate = None
    /\ track_id' = find_track(tracks)[1].id
    /\ Fail("MissingSampleRate")
    /\ UNCHANGED << tracks, source_sample_rate, channels, decoders,
                    stream, decodes, interleaved_samples, mono_samples,
                    resamplers, chunk, output, final_samples, lenState, cmd >>

(* ------------------------------------------------------------------ *)
(* Decoder construction (lines 61-67)                                 *)
(* ------------------------------------------------------------------ *)
MakeDecoder ==
    /\ pc = "TrackSelected"
    /\ decoders' = decoders + 1
    /\ interleaved_samples' = <<>>
    /\ pc' = "Decoding"
    /\ UNCHANGED << err, tracks, track_id, source_sample_rate, channels,
                    stream, decodes, mono_samples, resamplers, chunk,
                    output, final_samples, lenState, cmd >>

MakeDecoderFail ==
    /\ pc = "TrackSelected"
    /\ Fail("DecoderError")
    /\ UNCHANGED << tracks, track_id, source_sample_rate, channels, decoders,
                    stream, decodes, interleaved_samples, mono_samples,
                    resamplers, chunk, output, final_samples, lenState, cmd >>

(* ------------------------------------------------------------------ *)
(* The decode loop (lines 69-103): one action per iteration           *)
(* ------------------------------------------------------------------ *)
\* One result of next_packet and what the loop body did with it:
\*   "eof", "read_error"  next_packet returned no packet (track 0);
\*   "not_decoded"        a packet of another track;
\*   "decode_error", "fatal_error", "decoded"  the result of decoder.decode,
\*                        with the block's frame count and channel layout.
Packet(id, outcome, frames, chans) ==
    [track |-> id, outcome |-> outcome, frames |-> frames, chans |-> chans]

\* The demuxer yields a packet only while the stream has packets left.
MorePackets == Len(stream) < MaxPackets

OtherTrackIds == { tracks[i].id : i \in DOMAIN tracks } \ {track_id}

\* next_packet: Err(IoError(UnexpectedEof)) => break
ReadEof ==
    /\ pc = "Decoding"
    /\ stream' = Append(stream, Packet(0, "eof", 0, 0))
    /\ pc' = "Accumulated"
    /\ UNCHANGED << err, tracks, track_id, source_sample_rate, channels, decoders,
                    decodes, interleaved_samples, mono_samples,
                    resamplers, chunk, output, final_samples, lenState, cmd >>

\* Mutant of ReadError: every error of next_packet ends the loop like end-of-stream.
ReadError_AsEof ==
    /\ pc = "Decoding"
    /\ stream' = Append(stream, Packet(0, "read_error", 0, 0))
    /\ pc' = "Accumulated"
    /\ UNCHANGED << err, tracks, track_id, source_sample_rate, channels, decoders,
                    decodes, interleaved_samples, mono_samples,
                    resamplers, chunk, output, final_samples, lenState, cmd >>

\* next_packet: Err(e) => return Err(e).context("Error reading audio packet")
ReadError ==
    /\ pc = "Decoding"
    /\ stream' = Append(stream, Packet(0, "read_error", 0, 0))
    /\ Fail("PacketReadError")
    /\ UNCHANGED << tracks, track_id, source_sample_rate, channels, decoders,
                    decodes, interleaved_samples, mono_samples,
                    resamplers, chunk, output, final_samples, lenState, cmd >>

\* Mutant of SkipOtherTrack: the track check is missing, the packet is decoded
\* and its block appended.
SkipOtherTrack_Decoded ==
    /\ pc = "Decoding"
    /\ MorePackets
    /\ \E id \in OtherTrackIds, n \in FrameCounts \ {0}, c \in ChannelCounts :
          /\ stream' = Append(stream, Packet(id, "not_decoded", 0, 0))
          /\ interleaved_samples' =
                interleaved_samples \o BlockSamples(Len(stream) + 1, n, c)
    /\ decodes' = decodes + 1
    /\ UNCHANGED << pc, err, tracks, track_id, source_sample_rate, channels,
                    decoders, mono_samples, resamplers, chunk, output,
                    final_samples, lenState, cmd >>

\* packet.track_id() != track_id => continue
SkipOtherTrack ==
    /\ pc = "Decoding"
    /\ MorePackets
    /\ \E id \in OtherTrackIds :
          stream' = Append(stream, Packet(id, "not_decoded", 0, 0))
    /\ UNCHANGED << pc, err, tracks, track_id, source_sample_rate, channels,
                    decoders, decodes, interleaved_samples, mono_samples,
                    resamplers, chunk, output, final_samples, lenState, cmd >>

\* Mutant of DecodeRecoverable: a DecodeError aborts the call like any other error.
DecodeRecoverable_Abort ==
    /\ pc = "Decoding"
    /\ MorePackets
    /\ stream' = Append(stream, Packet(track_id, "decode_error", 0, 0))
    /\ decodes' = decodes + 1
    /\ Fail("FatalDecodeError")
    /\ UNCHANGED << tracks, track_id, source_sample_rate, channels,
                    decoders, interleaved_samples, mono_samples,
                    resamplers, chunk, output, final_samples, lenState, cmd >>

\* decoder.decode: Err(DecodeError(msg)) => log, continue
DecodeRecoverable ==
    /\ pc = "Decoding"
    /\ MorePackets
    /\ stream' = Append(stream, Packet(track_id, "decode_error", 0, 0))
    /\ decodes' = decodes + 1
    /\ UNCHANGED << pc, err, tracks, track_id, source_sample_rate, channels,
                    decoders, interleaved_samples, mono_samples,
                    resamplers, chunk, output, final_samples, lenState, cmd >>

\* Mutant of DecodeFatal: every decoder error is logged and skipped.
DecodeFatal_Skipped ==
    /\ pc = "Decoding"
    /\ MorePackets
    /\ stream' = Append(stream, Packet(track_id, "fatal_error", 0, 0))
    /\ decodes' = decodes + 1
    /\ UNCHANGED << pc, err, tracks, track_id, source_sample_rate, channels,
                    decoders, interleaved_samples, mono_samples,
                    resamplers, chunk, output, final_samples, lenState, cmd >>

\* decoder.decode: Err(e) => return Err(e).context("Fatal decode error")
DecodeFatal ==
    /\ pc = "Decoding"
    /\ MorePackets
    /\ stream' = Append(stream, Packet(track_id, "fatal_error", 0, 0))
    /\ decodes' = decodes + 1
    /\ Fail("FatalDecodeError")
    /\ UNCHANGED << tracks, track_id, source_sample_rate, channels,
                    decoders, interleaved_samples, mono_samples,
                    resamplers, chunk, output, final_samples, lenState, cmd >>

\* decoder.decode: Ok(decoded) with decoded.frames() == 0 => continue
DecodeZeroFrames ==
    /\ pc = "Decoding"
    /\ MorePackets
    /\ \E c \in ChannelCounts :
          stream' = Append(stream, Packet(track_id, "decoded", 0, c))
    /\ decodes' = decodes + 1
    /\ UNCHANGED << pc, err, tracks, track_id, source_sample_rate, channels,
                    decoders, interleaved_samples, mono_samples,
                    resamplers, chunk, output, final_samples, lenState, cmd >>

\* Mutant of DecodeBlock: a decoder is made for the packet inside the loop.
DecodeBlock_FreshDecoder ==
    /\ pc = "Decoding"
    /\ MorePackets
    /\ \E n \in FrameCounts \ {0}, c \in ChannelCounts :
          /\ stream' = Append(stream, Packet(track_id, "decoded", n, c))
          /\ interleaved_samples' =
                interleaved_samples \o BlockSamples(Len(stream) + 1, n, c)
    /\ decoders' = decoders + 1
    /\ decodes' = decodes + 1
    /\ UNCHANGED << pc, err, tracks, track_id, source_sample_rate, channels,
                    mono_samples, resamplers, chunk, output,
                    final_samples, lenState, cmd >>

\* decoder.decode: Ok(decoded): the block is copied, interleaved in the block's
\* own layout (decoded.spec()), and appended to the accumulator.
DecodeBlock ==
    /\ pc = "Decoding"
    /\ MorePackets
    /\ \E n \in FrameCounts \ {0}, c \in ChannelCounts :
          /\ stream' = Append(stream, Packet(track_id, "decoded", n, c))
          /\ interleaved_samples' =
                interleaved_samples \o BlockSamples(Len(stream) + 1, n, c)
    /\ decodes' = decodes + 1
    /\ UNCHANGED << pc, err, tracks, track_id, source_sample_rate, channels,
                    decoders, mono_samples, resamplers, chunk, output,
                    final_samples, lenState, cmd >>

(* ------------------------------------------------------------------ *)
(* Empty check and mixdown (lines 105-117)                            *)
(* ------------------------------------------------------------------ *)
\* Mutant of EmptyResult: no empty check, an empty accumulator goes on as it is.
EmptyResult_Unchecked ==
    /\ pc = "Accumulated"
    /\ interleaved_samples = <<>>
    /\ mono_samples' = <<>>
    /\ pc' = "Mixed"
    /\ UNCHANGED << err, tracks, track_id, source_sample_rate, channels, decoders,
                    stream, decodes, interleaved_samples,
                    resamplers, chunk, output, final_samples, lenState, cmd >>

EmptyResult ==
    /\ pc = "Accumulated"
    /\ interleaved_samples = <<>>
    /\ Fail("EmptyDecodeResult")
    /\ UNCHANGED << tracks, track_id, source_sample_rate, channels, decoders,
                    stream, decodes, interleaved_samples, mono_samples,
                    resamplers, chunk, output, final_samples, lenState, cmd >>

\* frame.iter().sum::<f32>(): the decoded samples all have denominator 1.
RECURSIVE frame_sum(_)
frame_sum(frame) ==
    IF frame = <<>> THEN 0 ELSE Head(frame).num + frame_sum(Tail(frame))

\* chunks_exact(c): the Len \div c whole frames; a shorter remainder is dropped.
chunks_exact(samples, c) ==
    [i \in 1..(Len(samples) \div c) |-> SubSeq(samples, (i - 1) * c + 1, i * c)]

\* if channels > 1 { chunks_exact(channels).map(sum / channels) } else { same }
mixdown(samples, c) ==
    IF c > 1
    THEN LET frames == chunks_exact(samples, c) IN
         [i \in DOMAIN frames |-> Sample(frame_sum(frames[i]), c)]
    ELSE samples

Mixdown ==
    /\ pc = "Accumulated"
    /\ interleaved_samples /= <<>>
    /\ mono_samples' = mixdown(interleaved_samples, channels)
    /\ pc' = "Mixed"
    /\ UNCHANGED << err, tracks, track_id, source_sample_rate, channels, decoders,
                    stream, decodes, interleaved_samples,
                    resamplers, chunk, output, final_samples, lenState, cmd >>

(* ------------------------------------------------------------------ *)
(* Rate stage and resample (lines 119-124, 138-170)                   *)
(* ------------------------------------------------------------------ *)
\* Mutant of needs_resample: the rate stage resamples whatever the source rate.
needs_resample_always(from_hz) == TRUE

\* if source_sample_rate != TARGET_SAMPLE_RATE { resample(..)? } else { mono }
needs_resample(from_hz) == from_hz /= TARGET_SAMPLE_RATE

\* samples.chunks(CHUNK_SIZE): the number of blocks, the last one maybe short.
num_chunks(len) == (len + CHUNK_SIZE - 1) \div CHUNK_SIZE

\* Mutant of expected_len: the quotient is cut to an integer and one is added.
expected_len_floor_plus_one(len, from_hz, to_hz) ==
    (len \div from_hz) * to_hz + ((len % from_hz) * to_hz) \div from_hz + 1

\* (len as f64 * to_hz as f64 / from_hz as f64).ceil() as usize.  The product
\* is exact in f64 below 2^53 and the quotient is correctly rounded, so the
\* result is the integer ceiling of the exact quotient len * to_hz / from_hz.
\* It is computed over whole multiples of from_hz and the rest, which keeps
\* the intermediate product small: len = q * from_hz + r gives
\* ceil(len * to_hz / from_hz) = q * to_hz + ceil(r * to_hz / from_hz).
expected_len(len, from_hz, to_hz) ==
    (len \div from_hz) * to_hz
        + ((len % from_hz) * to_hz + from_hz - 1) \div from_hz

\* Vec::truncate(n): keeps the first n elements, does nothing when n >= len.
truncate(v, n) == SubSeq(v, 1, Min2(Len(v), n))

SkipResample ==
    /\ pc = "Mixed"
    /\ ~needs_resample(source_sample_rate)
    /\ final_samples' = mono_samples
    /\ pc' = "Resampled"
    /\ UNCHANGED << err, tracks, track_id, source_sample_rate, channels, decoders,
                    stream, decodes, interleaved_samples, mono_samples,
                    resamplers, chunk, output, lenState, cmd >>

\* samples.chunks(CHUNK_SIZE): the k-th block (k = 1, 2, ...), CHUNK_SIZE
\* samples long except for a shorter last one.
chunk_at(samples, k) ==
    SubSeq(samples, (k - 1) * CHUNK_SIZE + 1, Min2(k * CHUNK_SIZE, Len(samples)))

\* Mutant of padded: the zeros are put in front of the block's samples.
padded_in_front(c) ==
    IF Len(c) < CHUNK_SIZE
    THEN [j \in 1..(CHUNK_SIZE - Len(c)) |-> Sample(0, 1)] \o c
    ELSE c

\* if chunk.len() < CHUNK_SIZE { to_vec, resize(CHUNK_SIZE, 0.0) } else { to_vec }
padded(c) ==
    IF Len(c) < CHUNK_SIZE
    THEN c \o [j \in 1..(CHUNK_SIZE - Len(c)) |-> Sample(0, 1)]
    ELSE c

\* The block the (k+1)-th iteration of the block loop passes to process.
next_input == padded(chunk_at(mono_samples, chunk + 1))

\* FftFixedIn::new(from_hz, to_hz, CHUNK_SIZE, 1, 1): Ok
MakeResampler ==
    /\ pc = "Mixed"
    /\ needs_resample(source_sample_rate)
    /\ resamplers' = resamplers + 1
    /\ output' = <<>>
    /\ chunk' = 0
    /\ pc' = "Resampling"
    /\ UNCHANGED << err, tracks, track_id, source_sample_rate, channels, decoders,
                    stream, decodes, interleaved_samples, mono_samples,
                    final_samples, lenState, cmd >>

\* FftFixedIn::new: Err => "Failed to create resampler"
MakeResamplerFail ==
    /\ pc = "Mixed"
    /\ needs_resample(source_sample_rate)
    /\ Fail("ResampleError")
    /\ UNCHANGED << tracks, track_id, source_sample_rate, channels, decoders,
                    stream, decodes, interleaved_samples, mono_samples,
                    resamplers, chunk, output, final_samples, lenState, cmd >>

\* One iteration of `for chunk in samples.chunks(CHUNK_SIZE)`: the block is
\* padded to CHUNK_SIZE, processed, and what the resampler returns is appended.
ProcessChunk ==
    /\ pc = "Resampling"
    /\ chunk < num_chunks(Len(mono_samples))
    /\ \E n \in 0..MaxResampledFrames :
          output' = output \o [j \in 1..n |-> Resampled(chunk + 1, j)]
    /\ chunk' = chunk + 1
    /\ UNCHANGED << pc, err, tracks, track_id, source_sample_rate, channels,
                    decoders, stream, decodes, interleaved_samples,
                    mono_samples, resamplers, final_samples, lenState, cmd >>

\* Mutant of ProcessChunkFail: a failed block ends the loop and what the
\* earlier blocks produced is returned.
ProcessChunkFail_Partial ==
    /\ pc = "Resampling"
    /\ chunk < num_chunks(Len(mono_samples))
    /\ err' = "ResampleError"
    /\ final_samples' = output
    /\ pc' = "Resampled"
    /\ UNCHANGED << tracks, track_id, source_sample_rate, channels, decoders,
                    stream, decodes, interleaved_samples, mono_samples,
                    resamplers, chunk, output, lenState, cmd >>

\* resampler.process: Err => "Resampling failed"
ProcessChunkFail ==
    /\ pc = "Resampling"
    /\ chunk < num_chunks(Len(mono_samples))
    /\ Fail("ResampleError")
    /\ UNCHANGED << tracks, track_id, source_sample_rate, channels, decoders,
                    stream, decodes, interleaved_samples, mono_samples,
                    resamplers, chunk, output, final_samples, lenState, cmd >>

\* After the loop: output.truncate(expected_len); Ok(output)
TruncateOutput ==
    /\ pc = "Resampling"
    /\ chunk = num_chunks(Len(mono_samples))
    /\ output' = truncate(output,
                    expected_len(Len(mono_samples), source_sample_rate,
                                 TARGET_SAMPLE_RATE))
    /\ final_samples' = output'
    /\ pc' = "Resampled"
    /\ UNCHANGED << err, tracks, track_id, source_sample_rate, channels, decoders,
                    stream, decodes, interleaved_samples, mono_samples,
                    resamplers, chunk, lenState, cmd >>

\* Lines 126-134: log the duration, Ok(final_samples)
Finish ==
    /\ pc = "Resampled"
    /\ pc' = "Done"
    /\ UNCHANGED << err, tracks, track_id, source_sample_rate, channels, decoders,
                    stream, decodes, interleaved_samples, mono_samples,
                    resamplers, chunk, output, final_samples, lenState, cmd >>

Next ==
    \/ Open
    \/ OpenFail
    \/ Probe
    \/ ProbeFail
    \/ SelectTrack
    \/ NoAudioTrack
    \/ MissingSampleRate
    \/ MakeDecoder
    \/ MakeDecoderFail
    \/ ReadEof
    \/ ReadError
    \/ SkipOtherTrack
    \/ DecodeRecoverable
    \/ DecodeFatal
    \/ DecodeZeroFrames
    \/ DecodeBlock
    \/ EmptyResult
    \/ Mixdown
    \/ SkipResample
    \/ MakeResampler
    \/ MakeResamplerFail
    \/ ProcessChunk
    \/ ProcessChunkFail
    \/ TruncateOutput
    \/ Finish

Spec == Init /\ [][Next]_vars

(* ------------------------------------------------------------------ *)
(* SpecResample: the calls resample(samples, from_hz, 16000) for mono *)
(* buffers of up to three blocks, with the actions of Spec.           *)
(* ------------------------------------------------------------------ *)
\* Lengths of the buffers resample is called with.
ResampleLens ==
    {1, CHUNK_SIZE - 1, CHUNK_SIZE, CHUNK_SIZE + 1, 2 * CHUNK_SIZE, 2 * CHUNK_SIZE + 2}

ResampleRates == {44100, 48000}

\* The call at line 121: the mixdown is done and the rates differ.  The i-th
\* sample has the value i, so that every sample shows where it came from.
ResampleInit ==
    /\ pc = "Mixed"
    /\ err = ""
    /\ tracks = <<>>
    /\ track_id = 0
    /\ \E from_hz \in ResampleRates : source_sample_rate = from_hz
    /\ channels = 1
    /\ decoders = 0
    /\ stream = <<>>
    /\ decodes = 0
    /\ \E len \in ResampleLens :
          /\ mono_samples = [i \in 1..len |-> Sample(i, 1)]
          /\ interleaved_samples = mono_samples
    /\ resamplers = 0
    /\ chunk = 0
    /\ output = <<>>
    /\ final_samples = <<>>
    /\ lenState = LenOff
    /\ cmd = CmdOff

ResampleNext ==
    \/ MakeResampler
    \/ MakeResamplerFail
    \/ ProcessChunk
    \/ ProcessChunkFail
    \/ TruncateOutput
    \/ Finish

SpecResample == ResampleInit /\ [][ResampleNext]_vars

(* ------------------------------------------------------------------ *)
(* SpecCmd: transcribe_audio_file (commands/file_transcription.rs),   *)
(* one call, with decode_audio_file run by the actions of Spec.       *)
(* ------------------------------------------------------------------ *)
\* A string is the sequence of its characters.
SUPPORTED_EXTENSIONS ==
    { <<"w", "a", "v">>, <<"m", "p", "3">>, <<"f", "l", "a", "c">>,
      <<"m", "4", "a">>, <<"a", "a", "c">>, <<"o", "g", "g">>, <<"o", "g", "a">> }

\* What path.extension() is for the paths the command is called with: none,
\* or the characters after the last dot.
PathExtensions ==
    { None, Some(<<"t", "x", "t">>), Some(<<"w", "a", "v">>),
      Some(<<"W", "A", "V">>), Some(<<"O", "g", "a">>) }

\* The texts a transcription returns.
Texts == {"", "hello"}

\* char::to_lowercase on the letters of PathExtensions; every other character
\* is left as it is.
lowercase_char(c) ==
    CASE c = "A" -> "a"
      [] c = "O" -> "o"
      [] c = "V" -> "v"
      [] c = "W" -> "w"
      [] OTHER -> c

to_lowercase(e) == [i \in DOMAIN e |-> lowercase_char(e[i])]

\* path.extension().and_then(to_str).map(to_lowercase).unwrap_or_default()
extension_of(ext) == IF ext = None THEN <<>> ELSE to_lowercase(ext[1])

supported == extension_of(cmd.extension) \in SUPPORTED_EXTENSIONS

\* The variables of decode_audio_file.
decodeVars == << pc, err, tracks, track_id, source_sample_rate, channels, decoders,
                 stream, decodes, interleaved_samples, mono_samples,
                 resamplers, chunk, output, final_samples, lenState >>

\* The command is called with a path: the file exists or not, and the path has
\* one of the extensions.  Nothing is emitted, decode_audio_file is not running.
CmdInit ==
    /\ pc = "Start"
    /\ err = ""
    /\ tracks = <<>>
    /\ track_id = 0
    /\ source_sample_rate = 0
    /\ channels = 0
    /\ decoders = 0
    /\ stream = <<>>
    /\ decodes = 0
    /\ interleaved_samples = <<>>
    /\ mono_samples = <<>>
    /\ resamplers = 0
    /\ chunk = 0
    /\ output = <<>>
    /\ final_samples = <<>>
    /\ lenState = LenOff
    /\ \E x \in BOOLEAN, e \in PathExtensions :
          cmd = [ pc          |-> "called",
                  exists      |-> x,
                  extension   |-> e,
                  progress    |-> <<>>,   \* stages emitted, in order
                  decode_calls |-> 0,     \* calls of decode_audio_file
                  model_loads |-> 0,      \* calls of initiate_model_load
                  transcribes |-> 0,      \* calls of transcribe
                  saves       |-> 0,      \* calls of save_transcription
                  history     |-> "",     \* "saved" or "save_failed"
                  text        |-> "",     \* the transcribed text
                  returned    |-> "",     \* "Ok" or "Err"
                  error       |-> "" ]

\* emit_progress(&app, stage, None)
emit_progress(c, stage) == [c EXCEPT !.progress = Append(@, stage)]

\* `return Err(..)` and the `?` of lines 79-80 and 93-94.
CmdErr(c, e) == [c EXCEPT !.pc = "returned", !.returned = "Err", !.error = e]

\* !path.exists() => return Err("File not found")
CmdFileNotFound ==
    /\ cmd.pc = "called"
    /\ ~cmd.exists
    /\ cmd' = CmdErr(cmd, "FileNotFound")
    /\ UNCHANGED decodeVars

\* !SUPPORTED_EXTENSIONS.contains(extension) => return Err("Unsupported ..")
CmdUnsupported ==
    /\ cmd.pc = "called"
    /\ cmd.exists
    /\ ~supported
    /\ cmd' = CmdErr(cmd, "UnsupportedFormat")
    /\ UNCHANGED decodeVars

\* Stage 1: "decoding" is emitted and decode_audio_file is spawned.
CmdStartDecode ==
    /\ cmd.pc = "called"
    /\ cmd.exists
    /\ supported
    /\ cmd' = [emit_progress(cmd, "decoding") EXCEPT
                  !.pc = "decoding", !.decode_calls = @ + 1]
    /\ UNCHANGED decodeVars

\* decode_audio_file runs in its blocking task, the command awaits it.
CmdDecodeStep ==
    /\ cmd.pc = "decoding"
    /\ Next

\* The task did not run to its end (JoinError): "Decode task failed".
CmdDecodeJoinError ==
    /\ cmd.pc = "decoding"
    /\ pc \notin {"Done", "Failed"}
    /\ cmd' = CmdErr(cmd, "DecodeTaskFailed")
    /\ UNCHANGED decodeVars

\* Mutant of CmdDecodeFailed: the command goes on to the model without samples.
CmdDecodeFailed_Ignored ==
    /\ cmd.pc = "decoding"
    /\ pc = "Failed"
    /\ cmd' = [emit_progress(cmd, "loading_model") EXCEPT
                  !.pc = "model", !.model_loads = @ + 1]
    /\ UNCHANGED decodeVars

\* decode_audio_file returned Err: "Failed to decode audio file".
CmdDecodeFailed ==
    /\ cmd.pc = "decoding"
    /\ pc = "Failed"
    /\ cmd' = CmdErr(cmd, "DecodeFailed")
    /\ UNCHANGED decodeVars

\* Stage 2: decode_audio_file returned Ok(samples); "loading_model" is emitted
\* and initiate_model_load called.
CmdLoadModel ==
    /\ cmd.pc = "decoding"
    /\ pc = "Done"
    /\ cmd' = [emit_progress(cmd, "loading_model") EXCEPT
                  !.pc = "model", !.model_loads = @ + 1]
    /\ UNCHANGED decodeVars

\* Stage 3: "transcribing" is emitted and transcribe(samples) spawned.
CmdStartTranscribe ==
    /\ cmd.pc = "model"
    /\ cmd' = [emit_progress(cmd, "transcribing") EXCEPT
                  !.pc = "transcribing", !.transcribes = @ + 1]
    /\ UNCHANGED decodeVars

\* The transcription task did not run to its end: "Transcription task failed".
CmdTranscribeJoinError ==
    /\ cmd.pc = "transcribing"
    /\ cmd' = CmdErr(cmd, "TranscriptionTaskFailed")
    /\ UNCHANGED decodeVars

\* transcribe returned Err: "Transcription failed".
CmdTranscribeFailed ==
    /\ cmd.pc = "transcribing"
    /\ cmd' = CmdErr(cmd, "TranscriptionFailed")
    /\ UNCHANGED decodeVars

\* Stage 4: transcribe returned Ok(text); "saving" is emitted and
\* save_transcription(samples, text.clone(), None, None) called.
CmdTranscribed ==
    /\ cmd.pc = "transcribing"
    /\ \E t \in Texts :
          cmd' = [emit_progress(cmd, "saving") EXCEPT
                     !.pc = "saving", !.text = t, !.saves = @ + 1]
    /\ UNCHANGED decodeVars

\* Ok(FileTranscriptionResult { text, .. })
CmdOk(c, h) == [c EXCEPT !.pc = "returned", !.returned = "Ok", !.history = h]

\* save_transcription returned Ok: the command returns the result.
CmdSaveOk ==
    /\ cmd.pc = "saving"
    /\ cmd' = CmdOk(cmd, "saved")
    /\ UNCHANGED decodeVars

\* Mutant of CmdSaveFailed: the save error is returned with `?`.
CmdSaveFailed_Propagated ==
    /\ cmd.pc = "saving"
    /\ cmd' = [CmdErr(cmd, "SaveFailed") EXCEPT !.history = "save_failed"]
    /\ UNCHANGED decodeVars

\* save_transcription returned Err: it is logged, the command returns the
\* result all the same.
CmdSaveFailed ==
    /\ cmd.pc = "saving"
    /\ cmd' = CmdOk(cmd, "save_failed")
    /\ UNCHANGED decodeVars

CmdNext ==
    \/ CmdFileNotFound
    \/ CmdUnsupported
    \/ CmdStartDecode
    \/ CmdDecodeStep
    \/ CmdDecodeJoinError
    \/ CmdDecodeFailed
    \/ CmdLoadModel
    \/ CmdStartTranscribe
    \/ CmdTranscribeJoinError
    \/ CmdTranscribeFailed
    \/ CmdTranscribed
    \/ CmdSaveOk
    \/ CmdSaveFailed

SpecCmd == CmdInit /\ [][CmdNext]_vars

(* ------------------------------------------------------------------ *)
(* SpecLen: lines 105-170 on lengths.  lenState holds the lengths of  *)
(* the buffers where Spec holds the buffers themselves, so that a     *)
(* buffer of many CHUNK_SIZE blocks is one number.                    *)
(* ------------------------------------------------------------------ *)
\* Frames the resampler returns for one block: none (it is still gathering
\* input) or a burst of LenBurst frames.
LenBurst == 2048

\* Lengths of the interleaved accumulator when the decode loop has ended.
LenInterleaved == {0, 1, 2, 1025, 2049, 3 * CHUNK_SIZE, 176400}

LenRates == {TARGET_SAMPLE_RATE, 44100, 48000}

callVars == << pc, err, tracks, track_id, source_sample_rate, channels, decoders,
               stream, decodes, interleaved_samples, mono_samples,
               resamplers, chunk, output, final_samples, cmd >>

LenInit ==
    /\ pc = "Start"
    /\ err = ""
    /\ tracks = <<>>
    /\ track_id = 0
    /\ source_sample_rate = 0
    /\ channels = 0
    /\ decoders = 0
    /\ stream = <<>>
    /\ decodes = 0
    /\ interleaved_samples = <<>>
    /\ mono_samples = <<>>
    /\ resamplers = 0
    /\ chunk = 0
    /\ output = <<>>
    /\ final_samples = <<>>
    /\ cmd = CmdOff
    /\ \E n \in LenInterleaved, c \in ChannelCounts, r \in LenRates :
          lenState = [pc |-> "Accumulated", err |-> "",
                      interleaved_len |-> n, channels |-> c, from_hz |-> r,
                      mono_len |-> 0, resamplers |-> 0, chunk |-> 0,
                      produced |-> 0, output_len |-> 0, final_len |-> 0]

\* Len(mixdown(samples, c)) for Len(samples) = len
mixdown_len(len, c) == IF c > 1 THEN len \div c ELSE len

LenEmptyResult ==
    /\ lenState.pc = "Accumulated"
    /\ lenState.interleaved_len = 0
    /\ lenState' = [lenState EXCEPT !.pc = "Failed", !.err = "EmptyDecodeResult"]
    /\ UNCHANGED callVars

LenMixdown ==
    /\ lenState.pc = "Accumulated"
    /\ lenState.interleaved_len /= 0
    /\ lenState' = [lenState EXCEPT
                      !.pc = "Mixed",
                      !.mono_len = mixdown_len(lenState.interleaved_len,
                                               lenState.channels)]
    /\ UNCHANGED callVars

LenSkipResample ==
    /\ lenState.pc = "Mixed"
    /\ ~needs_resample(lenState.from_hz)
    /\ lenState' = [lenState EXCEPT !.pc = "Resampled",
                                    !.final_len = lenState.mono_len]
    /\ UNCHANGED callVars

LenMakeResampler ==
    /\ lenState.pc = "Mixed"
    /\ needs_resample(lenState.from_hz)
    /\ lenState' = [lenState EXCEPT !.pc = "Resampling",
                                    !.resamplers = @ + 1,
                                    !.chunk = 0,
                                    !.output_len = 0]
    /\ UNCHANGED callVars

LenMakeResamplerFail ==
    /\ lenState.pc = "Mixed"
    /\ needs_resample(lenState.from_hz)
    /\ lenState' = [lenState EXCEPT !.pc = "Failed", !.err = "ResampleError"]
    /\ UNCHANGED callVars

\* produced: the frames the resampler has returned so far (before truncation).
LenProcessChunk ==
    /\ lenState.pc = "Resampling"
    /\ lenState.chunk < num_chunks(lenState.mono_len)
    /\ \E n \in {0, LenBurst} :
          lenState' = [lenState EXCEPT !.chunk = @ + 1,
                                       !.produced = @ + n,
                                       !.output_len = @ + n]
    /\ UNCHANGED callVars

LenProcessChunkFail ==
    /\ lenState.pc = "Resampling"
    /\ lenState.chunk < num_chunks(lenState.mono_len)
    /\ lenState' = [lenState EXCEPT !.pc = "Failed", !.err = "ResampleError"]
    /\ UNCHANGED callVars

LenTruncateOutput ==
    /\ lenState.pc = "Resampling"
    /\ lenState.chunk = num_chunks(lenState.mono_len)
    /\ LET n == Min2(lenState.output_len,
                     expected_len(lenState.mono_len, lenState.from_hz,
                                  TARGET_SAMPLE_RATE))
       IN lenState' = [lenState EXCEPT !.pc = "Resampled",
                                       !.output_len = n,
                                       !.final_len = n]
    /\ UNCHANGED callVars

LenFinish ==
    /\ lenState.pc = "Resampled"
    /\ lenState' = [lenState EXCEPT !.pc = "Done"]
    /\ UNCHANGED callVars

LenNext ==
    \/ LenEmptyResult
    \/ LenMixdown
    \/ LenSkipResample
    \/ LenMakeResampler
    \/ LenMakeResamplerFail
    \/ LenProcessChunk
    \/ LenProcessChunkFail
    \/ LenTruncateOutput
    \/ LenFinish

SpecLen == LenInit /\ [][LenNext]_vars

(* ------------------------------------------------------------------ *)
(* Vocabulary of the claims                                           *)
(* ------------------------------------------------------------------ *)
Last(s) == s[Len(s)]

\* A packet of the selected track that decoded to one or more frames.
GoodPacket(p) ==
    /\ p.track = track_id
    /\ p.outcome = "decoded"
    /\ p.frames >= 1

HasGoodPacket == \E i \in DOMAIN stream : GoodPacket(stream[i])

HasOutcome(o) == \E i \in DOMAIN stream : stream[i].outcome = o

\* The last call of next_packet reported end-of-stream.
EndOfStream == stream /= <<>> /\ Last(stream).outcome = "eof"

\* The step appended a result with outcome o to the stream.
Read(o) == Len(stream') = Len(stream) + 1 /\ Last(stream').outcome = o

\* No mixdown, no resampling and no sample buffer has been produced.
NothingProduced ==
    /\ mono_samples = <<>>
    /\ resamplers = 0
    /\ chunk = 0
    /\ output = <<>>
    /\ final_samples = <<>>

(* ------------------------------------------------------------------ *)
(* C1  resample returns exactly ceil(L * T / R) samples               *)
(* ------------------------------------------------------------------ *)
\* C1: for a non-empty mono buffer of length L at a rate R other than the target
\* rate T, whatever lengths the resampler returns block by block, a successful
\* resample returns a buffer of exactly ceil(L * T / R) samples.
C1_ExactLength ==
    ( /\ lenState.pc \in {"Resampled", "Done"}
      /\ needs_resample(lenState.from_hz)
      /\ lenState.mono_len > 0 )
    => lenState.final_len
         = expected_len(lenState.mono_len, lenState.from_hz, TARGET_SAMPLE_RATE)

(* ------------------------------------------------------------------ *)
(* C2  a recoverable decode error is skipped                          *)
(* ------------------------------------------------------------------ *)
\* C2 as stated: a stream that ends in end-of-stream, with no fatal decode error
\* and no read error, and with a packet of the selected track that decoded to
\* one or more frames, ends in success with a non-empty output.
C2_SuccessNonEmpty ==
    (EndOfStream /\ HasGoodPacket)
    => /\ pc /= "Failed"
       /\ pc = "Done" => final_samples /= <<>>

\* C2 amended: a recoverable decode error keeps the call in the decode loop with
\* the accumulator and the error state unchanged; and a stream that ends in
\* end-of-stream with a packet of the selected track that decoded to one or
\* more frames leaves the loop with a non-empty accumulator, so the call passes
\* the empty check and can fail only in the resampler.
C2_RecoverableSkipped ==
    /\ [][ Read("decode_error")
             => /\ pc' = "Decoding"
                /\ err' = ""
                /\ interleaved_samples' = interleaved_samples ]_vars
    /\ []( (EndOfStream /\ HasGoodPacket)
             => /\ interleaved_samples /= <<>>
                /\ pc = "Failed" => err = "ResampleError" )

\* Reached: a stream with a recoverable decode error and a decoded block has
\* been read to its end and the call has succeeded.
C2_Witness ==
    /\ pc = "Done"
    /\ HasOutcome("decode_error")
    /\ HasGoodPacket
    /\ final_samples /= <<>>

(* ------------------------------------------------------------------ *)
(* C3  any other decoder error is fatal                               *)
(* ------------------------------------------------------------------ *)
\* C3: a decoder error other than DecodeError ends the call in failure at that
\* packet: it is the last thing read, nothing is decoded after it, no mixdown,
\* resampling or sample buffer is produced, and the failed call takes no
\* further step, whatever the accumulator holds.
C3_FatalDecodeError ==
    /\ []( HasOutcome("fatal_error")
             => /\ Last(stream).outcome = "fatal_error"
                /\ \A i \in 1..(Len(stream) - 1) :
                      stream[i].outcome /= "fatal_error"
                /\ pc = "Failed"
                /\ err = "FatalDecodeError"
                /\ NothingProduced )
    /\ [][ pc = "Failed" => UNCHANGED vars ]_vars

\* Reached: a fatal decode error after samples had been accumulated.
C3_Witness ==
    /\ HasOutcome("fatal_error")
    /\ pc = "Failed"
    /\ interleaved_samples /= <<>>

(* ------------------------------------------------------------------ *)
(* C4  end-of-stream ends the loop, any other read error fails        *)
(* ------------------------------------------------------------------ *)
\* C4: end-of-stream from next_packet ends the loop without failing the call
\* and with the accumulator as it stands; every other error from next_packet
\* ends the call with a packet-read error and nothing produced, also when
\* samples have been accumulated.
C4_EofOrReadError ==
    /\ [][ Read("eof")
             => /\ pc' = "Accumulated"
                /\ err' = ""
                /\ interleaved_samples' = interleaved_samples ]_vars
    /\ []( EndOfStream => (pc = "Failed" => err \in {"EmptyDecodeResult",
                                                     "ResampleError"}) )
    /\ []( HasOutcome("read_error")
             => /\ Last(stream).outcome = "read_error"
                /\ pc = "Failed"
                /\ err = "PacketReadError"
                /\ NothingProduced )

\* Reached: a read error after samples had been accumulated.
C4_Witness ==
    /\ HasOutcome("read_error")
    /\ pc = "Failed"
    /\ interleaved_samples /= <<>>

(* ------------------------------------------------------------------ *)
(* C5  nothing decoded: the empty-result error                        *)
(* ------------------------------------------------------------------ *)
\* C5: when the stream has ended and no packet of the selected track decoded to
\* one or more frames, the call is at the empty check or has failed there with
\* the empty-result error, and the empty check's only step is that failure;
\* the call never succeeds.
C5_EmptyResult ==
    /\ []( (EndOfStream /\ ~HasGoodPacket)
             => \/ pc = "Accumulated"
                \/ pc = "Failed" /\ err = "EmptyDecodeResult" /\ NothingProduced )
    /\ [][ (pc = "Accumulated" /\ ~HasGoodPacket)
             => pc' = "Failed" /\ err' = "EmptyDecodeResult" ]_vars

\* Reached: the empty-result failure of a stream that held a recoverable decode
\* error, a packet of another track or a zero-frame block.
C5_Witness ==
    /\ pc = "Failed"
    /\ err = "EmptyDecodeResult"
    /\ HasOutcome("decode_error")

(* ------------------------------------------------------------------ *)
(* C6  mixdown: one mean per decoded frame                            *)
(* ------------------------------------------------------------------ *)
\* The call has passed the mixdown.
PastMixdown ==
    \/ pc \in {"Mixed", "Resampling", "Resampled", "Done"}
    \/ pc = "Failed" /\ err = "ResampleError"

\* Frames decoded from the packets of the selected track.
RECURSIVE DecodedFrames(_)
DecodedFrames(s) ==
    IF s = <<>> THEN 0
    ELSE (IF GoodPacket(Head(s)) THEN Head(s).frames ELSE 0) + DecodedFrames(Tail(s))

\* Sum of the numerators of samples[a..b].
RECURSIVE SumOf(_, _, _)
SumOf(samples, a, b) ==
    IF a > b THEN 0 ELSE samples[a].num + SumOf(samples, a + 1, b)

\* mono[i] is the arithmetic mean of interleaved[(i-1)*c+1 .. i*c] (1-based).
IsMeanOfFrame(mono, interleaved, c, i) ==
    /\ i * c <= Len(interleaved)
    /\ mono[i].den /= 0
    /\ mono[i].num * c = SumOf(interleaved, (i - 1) * c + 1, i * c) * mono[i].den

\* C6: after mixdown with track channel count C > 1 the mono buffer has one
\* sample per decoded frame, each the arithmetic mean of the C interleaved
\* samples of its frame; with C = 1 the mono buffer is the interleaved buffer.
C6_MonoPerFrame ==
    PastMixdown
    => IF channels > 1
       THEN /\ Len(mono_samples) = DecodedFrames(stream)
            /\ \A i \in 1..Len(mono_samples) :
                  IsMeanOfFrame(mono_samples, interleaved_samples, channels, i)
       ELSE mono_samples = interleaved_samples

(* ------------------------------------------------------------------ *)
(* C7  equal rates: the rate stage is the identity                    *)
(* ------------------------------------------------------------------ *)
\* C7: when the source rate equals the target rate no resampler is constructed
\* and no block is processed, the step after the mixdown returns the mono
\* buffer, and the returned buffer is the mono buffer itself.
C7_EqualRatesIdentity ==
    /\ []( source_sample_rate = TARGET_SAMPLE_RATE
             => /\ resamplers = 0
                /\ chunk = 0
                /\ output = <<>>
                /\ err /= "ResampleError"
                /\ pc \in {"Resampled", "Done"} => final_samples = mono_samples )
    /\ [][ (pc = "Mixed" /\ source_sample_rate = TARGET_SAMPLE_RATE)
             => pc' = "Resampled" /\ final_samples' = mono_samples ]_vars

\* Reached: a call at the target rate has returned a buffer of several samples.
C7_Witness ==
    /\ pc = "Done"
    /\ source_sample_rate = TARGET_SAMPLE_RATE
    /\ Len(final_samples) >= 2
    /\ final_samples = mono_samples

(* ------------------------------------------------------------------ *)
(* C8  track selection                                                *)
(* ------------------------------------------------------------------ *)
AudioTracks == { i \in DOMAIN tracks : tracks[i].codec /= CODEC_TYPE_NULL }

\* Track selection has run (the container was opened and probed).
SelectionDone ==
    /\ pc \notin {"Start", "Opened", "Probed"}
    /\ err \notin {"OpenError", "ProbeError"}

\* C8: the selected track is the first one in container order whose codec is
\* not the null marker; without one the call fails with the no-audio-track
\* error. A selected track without a sample rate fails the call, whatever the
\* later tracks are; one without a channel count counts as one channel.
C8_TrackSelection ==
    SelectionDone
    => IF AudioTracks = {}
       THEN pc = "Failed" /\ err = "NoAudioTrack"
       ELSE LET first == CHOOSE i \in AudioTracks : \A j \in AudioTracks : i <= j
            IN /\ track_id = tracks[first].id
               /\ err /= "NoAudioTrack"
               /\ IF tracks[first].sample_rate = None
                  THEN pc = "Failed" /\ err = "MissingSampleRate"
                  ELSE /\ err /= "MissingSampleRate"
                       /\ source_sample_rate = tracks[first].sample_rate[1]
                       /\ channels = IF tracks[first].channels = None
                                     THEN 1
                                     ELSE tracks[first].channels[1]

\* Reached: the first audio track has no sample rate and the call has failed
\* although a later track has one.
C8_Witness ==
    /\ pc = "Failed"
    /\ err = "MissingSampleRate"
    /\ \E i \in DOMAIN tracks :
          /\ i > track_id
          /\ tracks[i].codec /= CODEC_TYPE_NULL
          /\ tracks[i].sample_rate /= None

(* ------------------------------------------------------------------ *)
(* C9  the 2-channel, 44100 Hz, 88200-frame scenario                  *)
(* ------------------------------------------------------------------ *)
Scenario ==
    /\ lenState.interleaved_len = 2 * 88200
    /\ lenState.channels = 2
    /\ lenState.from_hz = 44100

\* C9 as stated: the scenario's mono buffer has 88200 samples and the returned
\* buffer has ceil(88200 * 16000 / 44100) = 31972 samples.
C9_Returns31972 ==
    (Scenario /\ lenState.pc \in {"Resampled", "Done"})
    => /\ lenState.mono_len = 88200
       /\ lenState.final_len = 31972

\* C9 amended: the scenario's mono buffer has 88200 samples, the expected
\* length ceil(88200 * 16000 / 44100) is 32000, and the returned buffer has
\* the frames the resampler produced, cut to 32000: never more than 32000.
C9_Returns32000 ==
    /\ expected_len(88200, 44100, TARGET_SAMPLE_RATE) = 32000
    /\ (Scenario /\ lenState.pc \in {"Mixed", "Resampling", "Resampled", "Done"})
         => lenState.mono_len = 88200
    /\ (Scenario /\ lenState.pc \in {"Resampled", "Done"})
         => /\ lenState.final_len = Min2(lenState.produced, 32000)
            /\ lenState.final_len <= 32000

\* Reached: the scenario has returned 32000 samples, cut from a longer output.
C9_Witness ==
    /\ Scenario
    /\ lenState.pc = "Done"
    /\ lenState.mono_len = 88200
    /\ lenState.produced > 32000
    /\ lenState.final_len = 32000

(* ------------------------------------------------------------------ *)
(* C10  the pipeline's transitions                                    *)
(* ------------------------------------------------------------------ *)
\* C10 as stated: the only failures are the track selection failure and the
\* empty decode result.
C10_TwoFailuresOnly ==
    pc = "Failed" => err \in {"NoAudioTrack", "MissingSampleRate", "EmptyDecodeResult"}

Forward ==
    { <<"Start", "Opened">>, <<"Opened", "Probed">>, <<"Probed", "TrackSelected">>,
      <<"TrackSelected", "Decoding">>, <<"Decoding", "Accumulated">>,
      <<"Accumulated", "Mixed">>, <<"Mixed", "Resampling">>,
      <<"Mixed", "Resampled">>, <<"Resampling", "Resampled">>,
      <<"Resampled", "Done">> }

Failures ==
    { <<"Start", "OpenError">>, <<"Opened", "ProbeError">>,
      <<"Probed", "NoAudioTrack">>, <<"Probed", "MissingSampleRate">>,
      <<"TrackSelected", "DecoderError">>,
      <<"Decoding", "PacketReadError">>, <<"Decoding", "FatalDecodeError">>,
      <<"Accumulated", "EmptyDecodeResult">>,
      <<"Mixed", "ResampleError">>, <<"Resampling", "ResampleError">> }

\* C10 amended: every step moves one stage forward along Opened, Probed,
\* TrackSelected, Decoding, Mixed, Resampled, Done (with the end of the loop and
\* the block loop of the resampler as stages of their own), repeats the decode
\* loop or the block loop, or ends the call in failure; a failure comes from
\* the open, the probe, the track selection, the decoder construction, a
\* packet read, a fatal decode error, the empty check or the resampler. The
\* decode loop repeats only after a packet of another track, a recoverable
\* decode error or a decoded block.
C10_LinearPipeline ==
    [][ \/ /\ pc' = pc
           /\ err' = ""
           /\ \/ pc = "Resampling"
              \/ /\ pc = "Decoding"
                 /\ \/ Read("not_decoded")
                    \/ Read("decode_error")
                    \/ Read("decoded")
        \/ /\ <<pc, pc'>> \in Forward
           /\ err' = ""
        \/ /\ pc' = "Failed"
           /\ pc /= "Failed"
           /\ <<pc, err'>> \in Failures ]_vars

\* Reached: a failure that is neither a track selection failure nor the empty
\* decode result: a block of the resampler failed, after the decode loop had
\* accumulated samples and the resampler had been constructed.
C10_Witness ==
    /\ pc = "Failed"
    /\ err = "ResampleError"
    /\ resamplers = 1
    /\ interleaved_samples /= <<>>

(* ------------------------------------------------------------------ *)
(* C11  every call ends in Done or Failed                             *)
(* ------------------------------------------------------------------ *)
\* The call is single-threaded and blocking, with no suspension point: while
\* it has a step to take, it takes one.
FairSpec == Spec /\ WF_vars(Next)

Terminated == pc \in {"Done", "Failed"}

\* C11: the demuxer yielding finitely many packets (MaxPackets), every call
\* reaches Done or Failed, through every mix of packets of other tracks,
\* zero-frame blocks and recoverable decode errors; Done carries no error and
\* Failed carries one and no buffer, a final state is never left, and a probe
\* failure ends the call at the probe step, before any track, decoder or
\* packet.
C11_Terminates ==
    /\ <>Terminated
    /\ [](pc = "Done" => err = "")
    /\ [](err /= "" => pc = "Failed" /\ final_samples = <<>>)
    /\ [](err = "ProbeError"
            => tracks = <<>> /\ decoders = 0 /\ stream = <<>> /\ NothingProduced)
    /\ [][Terminated => UNCHANGED vars]_vars

\* Reached: a call has ended after a packet of another track and a recoverable
\* decode error.
C11_Witness ==
    /\ Terminated
    /\ HasOutcome("not_decoded")
    /\ HasOutcome("decode_error")

(* ------------------------------------------------------------------ *)
(* C12  the blocks of resample                                        *)
(* ------------------------------------------------------------------ *)
\* b is block k of samples: CHUNK_SIZE long, sample by sample the samples at
\* (k-1) * CHUNK_SIZE + 1 .. k * CHUNK_SIZE, and zero from the end of samples on.
IsBlock(b, samples, k) ==
    /\ (k - 1) * CHUNK_SIZE < Len(samples)
    /\ Len(b) = CHUNK_SIZE
    /\ \A j \in 1..CHUNK_SIZE :
          b[j] = IF (k - 1) * CHUNK_SIZE + j <= Len(samples)
                 THEN samples[(k - 1) * CHUNK_SIZE + j]
                 ELSE Sample(0, 1)

\* The frames of out are in the order of their blocks and, within a block, in
\* the order the resampler returned them.
InBlockOrder(out) ==
    \A i \in 1..(Len(out) - 1) :
       \/ out[i].block < out[i + 1].block
       \/ out[i].block = out[i + 1].block /\ out[i + 1].frame = out[i].frame + 1

\* C12: resample constructs one resampler; the k-th block it passes to process
\* is block k of the mono buffer, CHUNK_SIZE long, zero-padded on the right
\* when the buffer ends inside it; the blocks go in increasing order, one per
\* iteration, all of them before resample returns; and what process returns
\* for a block is appended behind what the earlier blocks returned.
C12_BlocksInOrder ==
    /\ [](resamplers <= 1)
    /\ [](pc \in {"Resampling", "Resampled", "Done"} => resamplers = 1)
    /\ [](pc = "Resampling" => chunk * CHUNK_SIZE < Len(mono_samples) + CHUNK_SIZE)
    /\ [](InBlockOrder(output) /\ \A i \in DOMAIN output : output[i].block <= chunk)
    /\ [][ (pc = "Resampling" /\ pc' /= "Resampled")
             => /\ IsBlock(next_input, mono_samples, chunk + 1)
                /\ pc' = "Resampling"
                     => /\ chunk' = chunk + 1
                        /\ SubSeq(output', 1, Len(output)) = output
                        /\ \A i \in (Len(output) + 1)..Len(output') :
                              output'[i].block = chunk + 1 ]_vars
    /\ [][ (pc = "Resampling" /\ pc' = "Resampled")
             => /\ chunk * CHUNK_SIZE >= Len(mono_samples)
                /\ final_samples' = SubSeq(output, 1, Len(final_samples')) ]_vars

\* Reached: a buffer of three blocks, the last one padded, has been resampled
\* and the result holds frames of more than one block.
C12_Witness ==
    /\ pc = "Done"
    /\ chunk = 3
    /\ Len(mono_samples) = 2 * CHUNK_SIZE + 2
    /\ Len(final_samples) >= 2
    /\ final_samples[1].block /= Last(final_samples).block

(* ------------------------------------------------------------------ *)
(* C13  one decoder per call                                          *)
(* ------------------------------------------------------------------ *)
\* Packets of the selected track among the first n results of the stream.
RECURSIVE SelectedPackets(_, _)
SelectedPackets(s, n) ==
    IF n = 0 THEN 0
    ELSE (IF s[n].track = track_id /\ s[n].outcome
                \in {"decoded", "decode_error", "fatal_error"}
          THEN 1 ELSE 0) + SelectedPackets(s, n - 1)

\* C13: a call constructs at most one decoder, in the step from track selection
\* to the decode loop and before anything is read; every packet is read and
\* every decode is made with that one decoder in place; each packet of the
\* selected track is decoded once; and when the construction fails the call
\* has failed with nothing read.
C13_OneDecoder ==
    /\ [](decoders <= 1)
    /\ []((stream /= <<>> \/ decodes > 0 \/ pc \in {"Decoding", "Accumulated"})
            => decoders = 1)
    /\ [](decodes = SelectedPackets(stream, Len(stream)))
    /\ [](err = "DecoderError"
            => pc = "Failed" /\ decoders = 0 /\ stream = <<>> /\ decodes = 0)
    /\ [][ decoders' /= decoders
             => /\ pc = "TrackSelected"
                /\ pc' = "Decoding"
                /\ stream = <<>>
                /\ decoders' = 1 ]_vars

\* Reached: two packets of the selected track have been decoded, with the one
\* decoder of the call.
C13_Witness ==
    /\ decoders = 1
    /\ decodes = 2
    /\ HasGoodPacket

(* ------------------------------------------------------------------ *)
(* C14  packets of other tracks, and what the accumulator holds       *)
(* ------------------------------------------------------------------ *)
\* The blocks of the good packets among s[i..], one after the other.
RECURSIVE ConcatBlocks(_, _)
ConcatBlocks(s, i) ==
    IF i > Len(s) THEN <<>>
    ELSE (IF GoodPacket(s[i])
          THEN BlockSamples(i, s[i].frames, s[i].chans)
          ELSE <<>>) \o ConcatBlocks(s, i + 1)

\* C14: a packet of another track is not decoded and changes neither the
\* decoder nor the accumulator; and the accumulator is, in stream order, the
\* blocks of exactly the packets of the selected track that decoded to one or
\* more frames.
C14_OtherTracksSkipped ==
    /\ [][ Read("not_decoded")
             => /\ Last(stream').track /= track_id
                /\ decodes' = decodes
                /\ decoders' = decoders
                /\ interleaved_samples' = interleaved_samples
                /\ pc' = "Decoding" ]_vars
    /\ [][ (Len(stream') = Len(stream) + 1 /\ Last(stream').track /= track_id)
             => decodes' = decodes /\ interleaved_samples' = interleaved_samples ]_vars
    /\ [](interleaved_samples = ConcatBlocks(stream, 1))

\* Reached: the loop has ended on a stream with a packet of another track and
\* a decoded block.
C14_Witness ==
    /\ EndOfStream
    /\ HasOutcome("not_decoded")
    /\ HasGoodPacket
    /\ interleaved_samples /= <<>>

(* ------------------------------------------------------------------ *)
(* C15  the accumulator holds whole frames                            *)
(* ------------------------------------------------------------------ *)
\* C15: when the decode loop has ended, the accumulator's length is the number
\* of decoded frames times the track's channel count, and so a multiple of it,
\* whatever the layouts of the decoded blocks.
C15_WholeFrames ==
    EndOfStream
    => /\ Len(interleaved_samples) = DecodedFrames(stream) * channels
       /\ Len(interleaved_samples) % channels = 0

(* ------------------------------------------------------------------ *)
(* C16  a failure of the resampler                                    *)
(* ------------------------------------------------------------------ *)
\* C16: when the resampler cannot be constructed, or process fails on block k,
\* the call has failed with the resample error: no resampler and no block in
\* the first case, the k - 1 earlier blocks processed in the second, no
\* buffer returned, and no further step (no later block is passed on).
C16_ResampleError ==
    /\ [](err = "ResampleError"
            => /\ pc = "Failed"
               /\ final_samples = <<>>
               /\ \/ resamplers = 0 /\ chunk = 0 /\ output = <<>>
                  \/ resamplers = 1 /\ chunk * CHUNK_SIZE < Len(mono_samples))
    /\ [][ err = "ResampleError" => UNCHANGED vars ]_vars
    /\ [][ (pc = "Resampling" /\ pc' /= "Resampling" /\ chunk * CHUNK_SIZE < Len(mono_samples))
             => pc' = "Failed" /\ err' = "ResampleError" ]_vars

\* Reached: process has failed on the second block, after the first block had
\* produced frames; a third block was still to come.
C16_Witness ==
    /\ pc = "Failed"
    /\ err = "ResampleError"
    /\ chunk = 1
    /\ output /= <<>>
    /\ Len(mono_samples) > 2 * CHUNK_SIZE

(* ------------------------------------------------------------------ *)
(* C17  a successful call returns samples                             *)
(* ------------------------------------------------------------------ *)
\* C17: on the success path the mono buffer after the mixdown and the buffer
\* after the rate stage are never empty.
C17_NonEmptySuccess ==
    /\ (PastMixdown /\ pc /= "Failed") => mono_samples /= <<>>
    /\ pc \in {"Resampled", "Done"} => final_samples /= <<>>

(* ------------------------------------------------------------------ *)
(* C18  the progress stages of transcribe_audio_file                  *)
(* ------------------------------------------------------------------ *)
Stages == << "decoding", "loading_model", "transcribing", "saving" >>

IsPrefix(s, t) == Len(s) <= Len(t) /\ s = SubSeq(t, 1, Len(s))

CmdFailedWith(errors) == cmd.returned = "Err" /\ cmd.error \in errors

\* C18: the stages emitted in a call are a prefix of decoding, loading_model,
\* transcribing, saving, and each stage counts the one call it announces.  A
\* path that does not exist or has no supported extension fails the command
\* with nothing emitted and decode_audio_file not run; a failed decode fails
\* it with only "decoding" emitted and no model load, transcription or save;
\* a failed transcription fails it with no save; and a command that has
\* returned does nothing more.
C18_ProgressPrefix ==
    /\ [](IsPrefix(cmd.progress, Stages))
    /\ [](/\ cmd.decode_calls = Min2(Len(cmd.progress), 1)
          /\ cmd.model_loads = (IF Len(cmd.progress) >= 2 THEN 1 ELSE 0)
          /\ cmd.transcribes = (IF Len(cmd.progress) >= 3 THEN 1 ELSE 0)
          /\ cmd.saves = (IF Len(cmd.progress) >= 4 THEN 1 ELSE 0))
    /\ []((~cmd.exists \/ extension_of(cmd.extension) \notin SUPPORTED_EXTENSIONS)
            => /\ cmd.progress = <<>>
               /\ cmd.decode_calls = 0
               /\ pc = "Start" /\ stream = <<>>
               /\ cmd.returned /= "Ok")
    /\ [](CmdFailedWith({"FileNotFound", "UnsupportedFormat"})
            => cmd.progress = <<>> /\ cmd.decode_calls = 0 /\ pc = "Start")
    /\ [](cmd.decode_calls = 0 => pc = "Start")
    /\ [](pc = "Failed"
            => /\ cmd.progress = << "decoding" >>
               /\ cmd.model_loads = 0 /\ cmd.transcribes = 0 /\ cmd.saves = 0
               /\ cmd.returned /= "Ok")
    /\ [](CmdFailedWith({"DecodeTaskFailed", "DecodeFailed"})
            => /\ cmd.progress = << "decoding" >>
               /\ cmd.model_loads = 0 /\ cmd.transcribes = 0 /\ cmd.saves = 0)
    /\ [](CmdFailedWith({"TranscriptionTaskFailed", "TranscriptionFailed"})
            => cmd.progress = SubSeq(Stages, 1, 3) /\ cmd.saves = 0)
    /\ [](Len(cmd.progress) >= 2 => pc = "Done")
    /\ [][ cmd.pc = "returned" => UNCHANGED vars ]_vars

\* Reached: the decode failed inside the packet loop and the command returned
\* the decode error.
C18_Witness ==
    /\ CmdFailedWith({"DecodeFailed"})
    /\ pc = "Failed"
    /\ stream /= <<>>
    /\ cmd.progress = << "decoding" >>

(* ------------------------------------------------------------------ *)
(* C19  a history save error does not fail the command                *)
(* ------------------------------------------------------------------ *)
\* C19: once the decode and the transcription have succeeded the history save
\* is called once, and whether it succeeds or fails the command returns Ok
\* with the transcribed text; an error is returned only when no save was made.
C19_SaveErrorIgnored ==
    /\ [][ cmd.pc = "saving"
             => /\ cmd'.pc = "returned"
                /\ cmd'.returned = "Ok"
                /\ cmd'.text = cmd.text
                /\ cmd'.history \in {"saved", "save_failed"} ]_vars
    /\ [](cmd.pc = "saving" => pc = "Done" /\ cmd.saves = 1 /\ cmd.text \in Texts)
    /\ [](cmd.history /= "" => cmd.returned = "Ok" /\ cmd.error = "")
    /\ [](cmd.returned = "Err" => cmd.saves = 0)
    /\ [](cmd.returned = "Ok" => cmd.saves = 1 /\ cmd.progress = Stages)

\* Reached: the save failed and the command returned Ok with the text.
C19_Witness ==
    /\ cmd.pc = "returned"
    /\ cmd.history = "save_failed"
    /\ cmd.returned = "Ok"
    /\ cmd.text = "hello"

====
